---- MODULE Spec2Model ----
(***************************************************************************)
(* zellij-chooser: a launcher that scans the zellij socket directory,      *)
(* probes every socket, lets the user pick a session name and hands the    *)
(* terminal to `zellij -a <name>` from a daemonized grandchild.            *)
(*                                                                         *)
(* The model follows src/src/main.rs.  One launcher invocation is the      *)
(* process tree {orig, mid, grand} that fork::daemon builds; the registry  *)
(* directory is shared with the zellij service and with a second launcher. *)
(***************************************************************************)
EXTENDS Naturals, Sequences, FiniteSets

(* ---------------------------------------------------------------------- *)
(* Strings are sequences of characters, so that is_empty and               *)
(* find(char::is_whitespace) are computed and not assumed.                 *)
(* ---------------------------------------------------------------------- *)
MaxLen == 2

Chars == {"a", " "}

Strings == UNION {[1..n -> Chars] : n \in 0..MaxLen}

\* char::is_whitespace
IsWhitespace(c) == c = " "

\* The names the service gives its sockets (session names).
RegNames == {<<"a">>, <<"a", "a">>}

\* Option<T>: None is <<>>, Some(v) is <<v>>.
None == <<>>

Some(v) == <<v>>

Launchers == {"L1", "L2"}

\* The processes of one invocation: the process the user started, the child
\* of daemon()'s first fork and the child of its second fork.
Procs == {"orig", "mid", "grand"}

VARIABLES
    dir,        \* state of ZELLIJ_SOCK_DIR: "ok", "absent" or "denied"
    fs,         \* fs[n]: what is at ZELLIJ_SOCK_DIR/n
    nested,     \* nested[l]: an environment variable of l contains "ZELLIJ"
    arg,        \* arg[l]: env::args().nth(1)
    pc,         \* pc[l][p]: position of process p of launcher l
    files,      \* files[l]: the entries read_dir still has to yield
    sessions,   \* sessions[l]: the Vec get_sessions builds / running_sessions
    log,        \* log[l][n]: what l's probe of n did (history)
    lastFeed,   \* lastFeed[l]: the line the last readline returned
    stdin,      \* stdin[l]: the value the selector's loop broke with
    prompted,   \* prompted[l]: interactive_select was entered
    joined,     \* joined[l]: result of try_joining ("-", "ok", "notfound")
    acted,      \* acted[l]: l looked at the registry (read_dir was called)
    printed,    \* printed[l]: exit_zellij_not_found printed its message
    cmds,       \* cmds[l]: the Command::spawn calls, in order
    listing,    \* listing[l]: the entries as read_dir yielded them (history)
    proc,       \* proc[l][p]: process p's session, standard streams and
                \* the Result connect returned in it
    sig         \* sig[l]: what the last Ctrl-C at the prompt led to

vars == <<dir, fs, nested, arg, pc, files, sessions, log, lastFeed, stdin,
          prompted, joined, acted, printed, cmds, listing, proc, sig>>

launcherVars == <<pc, files, sessions, log, lastFeed, stdin, prompted,
                  joined, acted, printed, cmds, listing, proc, sig>>

\* What can be at a path of the registry: nothing, a regular file, a socket
\* nobody listens on, a socket with a listening server, a socket the
\* launcher may not connect to, a socket whose server accepts connections
\* but neither answers nor closes them.
Kinds == {"none", "file", "stale", "live", "locked", "mute"}

NoLog == [out |-> "-", resp |-> "-", ret |-> "-", rm |-> "-",
          hitLive |-> FALSE, second |-> FALSE]

\* A process before connect: in the session of the terminal it was started
\* from, its standard streams those of that terminal, connect not returned.
NoProc == [detached |-> FALSE, stdio |-> "tty", ret |-> "-"]

(* ---------------------------------------------------------------------- *)
(* The decisions of the code, as operators.                                *)
(* ---------------------------------------------------------------------- *)

\* main, lines 22-26: the guard is `let _ = env::vars_os().into_iter().map(
\* closure)`.  Iterator::map is lazy and the adaptor is dropped without being
\* iterated, so the closure is applied to no variable at all.
ClosureRuns == FALSE

\* Whether the guard calls std::process::exit(-1).
GuardFires(hasMarker) == ClosureRuns /\ hasMarker

\* What LocalSocketStream::connect(path) yields for what is at the path:
\* ENOENT for nothing, ECONNREFUSED for a socket without a listener (and for a
\* path that is no socket), EACCES for a socket the caller may not write.
ConnectOutcome(kind) ==
    CASE kind = "none"   -> "notfound"
      [] kind = "file"   -> "refused"
      [] kind = "stale"  -> "refused"
      [] kind = "live"   -> "ok"
      [] kind = "mute"   -> "ok"
      [] kind = "locked" -> "denied"

\* A variant of ConnectArm that takes every Err for a dead socket.
ConnectArm_AnyErrRemoves(out) ==
    IF out = "ok" THEN "recv" ELSE "remove_file"

\* A variant of ConnectArm that unwraps a missing path instead of matching it.
ConnectArm_NotFoundFatal(out) ==
    CASE out = "ok"       -> "recv"
      [] out = "refused"  -> "remove_file"
      [] out = "notfound" -> "panic"
      [] OTHER            -> "false"

\* assert_socket, the arms of `match LocalSocketStream::connect(path)`:
\* Ok(stream) goes on to send and recv, Err(ConnectionRefused) to
\* remove_file, every other Err returns false.
ConnectArm(out) ==
    CASE out = "ok"      -> "recv"
      [] out = "refused" -> "remove_file"
      [] OTHER           -> "false"

\* What receiver.recv() can yield: Some((Connected, _)), Some of another
\* message, or None when the connection closes first.
Responses == {"Connected", "Other", "None"}

\* A variant of RecvArm that takes any message for the acknowledgement.
RecvArm_AnyMessage(resp) == resp # "None"

\* A variant of RecvReady in which recv gives up waiting.
RecvReady_TimesOut(kind) == TRUE

\* assert_socket, line 105: receiver.recv() blocks, without a timeout, until
\* a message arrives or the connection closes; neither happens while the
\* server at the path is one that stays silent.
RecvReady(kind) == kind # "mute"

\* assert_socket, the arms of `match receiver.recv()`.
RecvArm(resp) == resp = "Connected"

\* A variant of RemoveArm that unwraps the Result of remove_file.
RemoveArm_Unwrap(result) == IF result = "removed" THEN "false" ELSE "panic"

\* assert_socket, line 111: `drop(fs::remove_file(path))` discards the
\* Result, so the function goes on to return false whatever it was.
RemoveArm(result) == "false"

\* A variant of IsRejected without the whitespace test.
IsRejected_EmptyOnly(feed) == feed = <<>>

\* interactive_select, lines 160-165: the two `continue` tests.
IsRejected(feed) ==
    \/ feed = <<>>
    \/ \E i \in 1..Len(feed) : IsWhitespace(feed[i])

\* try_joining: Ok(()) when some element equals the name, Err(NotFound)
\* otherwise.
TryJoining(name, sess) ==
    IF \E i \in 1..Len(sess) : sess[i] = name THEN "ok" ELSE "notfound"

\* A variant of AfterJoin that gives up on a name that is not running.
AfterJoin_NotFoundExits(res) == IF res = "ok" THEN "launch" ELSE "exit-1"

\* main, lines 41-46: both arms of the match on try_joining fall through to
\* connect (spawn() is `Ok(())` and its expect cannot fail).
AfterJoin(res) == "launch"

\* connect, line 132: Command::new("zellij").arg("-a").arg(session).
ClientArgv(session) == <<"zellij", "-a", session>>

\* connect, line 128: the second argument of fork::daemon.
NoClose == TRUE

\* fork::daemon: unless noclose, the first child closes its standard streams
\* before the second fork.
DaemonStdio(s) == IF NoClose THEN s ELSE "closed"

\* A variant of DaemonParentArm in which the parent waits for its child.
DaemonParentArm_Waits == "daemon_parent"

\* fork::daemon, `Ok(Fork::Parent(_)) => exit(0)` on the first fork.
DaemonParentArm == "exit0"

\* A variant of SpawnsOn that takes the parent of the fork for the child.
SpawnsOn_Parent(ret) == ret = "Parent"

\* A variant of SpawnsOn that accepts every Ok.
SpawnsOn_AnyOk(ret) == ret \in {"Parent", "Child"}

\* connect, line 127: `if let Ok(Fork::Child) = daemon(..)`.
SpawnsOn(ret) == ret = "Child"

\* A variant of SpawnStdio that gives the client pipes, as output() does.
SpawnStdio_Piped(s) == "pipe"

\* connect, line 132: Command::spawn with no stdin/stdout/stderr set, so the
\* client inherits the streams of the process that spawns it.
SpawnStdio(s) == s

\* main, line 48: the Result of connect is not used; main returns and the
\* process ends with status 0.
AfterConnect(ret) == "exit0"

\* Directory enumeration order is whatever the file system yields: any
\* arrangement of the entries without repetition.
Orders(S) ==
    {q \in [1..Cardinality(S) -> S] :
        \A i, j \in 1..Cardinality(S) : i # j => q[i] # q[j]}

(* ---------------------------------------------------------------------- *)
(* Initial states.                                                         *)
(* ---------------------------------------------------------------------- *)

Unborn == [p \in Procs |-> "unborn"]

Started == [p \in Procs |-> IF p = "orig" THEN "main" ELSE "unborn"]

InitRegistry ==
    /\ dir \in {"ok", "absent", "denied"}
    /\ fs \in [RegNames -> Kinds]
    /\ dir # "ok" => \A n \in RegNames : fs[n] = "none"

InitLocals ==
    /\ files = [l \in Launchers |-> <<>>]
    /\ sessions = [l \in Launchers |-> <<>>]
    /\ log = [l \in Launchers |-> [n \in RegNames |-> NoLog]]
    /\ lastFeed = [l \in Launchers |-> None]
    /\ stdin = [l \in Launchers |-> None]
    /\ prompted = [l \in Launchers |-> FALSE]
    /\ joined = [l \in Launchers |-> "-"]
    /\ acted = [l \in Launchers |-> FALSE]
    /\ printed = [l \in Launchers |-> FALSE]
    /\ cmds = [l \in Launchers |-> <<>>]
    /\ listing = [l \in Launchers |-> <<>>]
    /\ proc = [l \in Launchers |-> [p \in Procs |-> NoProc]]
    /\ sig = [l \in Launchers |-> "-"]

\* One invocation, any environment and any argument.
Init ==
    /\ InitRegistry
    /\ InitLocals
    /\ \E b \in BOOLEAN : nested = [l \in Launchers |-> b /\ l = "L1"]
    /\ \E a \in {None} \cup {Some(s) : s \in Strings} :
          arg = [l \in Launchers |-> IF l = "L1" THEN a ELSE None]
    /\ pc = [l \in Launchers |-> IF l = "L1" THEN Started ELSE Unborn]

\* Two invocations started on the same registry.
InitRace ==
    /\ InitRegistry
    /\ InitLocals
    /\ nested = [l \in Launchers |-> FALSE]
    /\ arg = [l \in Launchers |-> None]
    /\ pc = [l \in Launchers |-> Started]

(* ---------------------------------------------------------------------- *)
(* The launcher.                                                           *)
(* ---------------------------------------------------------------------- *)

At(l, p, where) == pc[l][p] = where

Go(l, p, where) == pc' = [pc EXCEPT ![l][p] = where]

\* The paths a finished probe has found refused.
StaleDone ==
    {n \in RegNames : \E l \in Launchers : log[l][n].rm # "-"}

\* The entry the for_each closure is working on, and its file name.
Cur(l) == Head(files[l]).name

\* A variant of ProbeReturns that puts the name in front.
ProbeReturns_PushFront(l, ret) ==
    /\ sessions' = [sessions EXCEPT
          ![l] = IF ret THEN <<Cur(l)>> \o @ ELSE @]
    /\ files' = [files EXCEPT ![l] = Tail(@)]

\* The probe of the current entry returns `ret` to the for_each closure
\* (line 87), which pushes the name when it is true and takes the next entry.
ProbeReturns(l, ret) ==
    /\ sessions' = [sessions EXCEPT
          ![l] = IF ret THEN Append(@, Cur(l)) ELSE @]
    /\ files' = [files EXCEPT ![l] = Tail(@)]

\* main, lines 22-30: the nested-session guard, then argv[1] is read.
Guard(l) ==
    /\ At(l, "orig", "main")
    /\ Go(l, "orig", IF GuardFires(nested[l]) THEN "exit-1" ELSE "get_sessions")
    /\ UNCHANGED <<dir, fs, nested, arg, files, sessions, log, lastFeed, stdin,
                   prompted, joined, acted, printed, cmds, listing, proc, sig>>

\* A variant of ReadDirArm that takes every Err for an empty directory.
ReadDirArm_AnyErrEmpty(d) == IF d = "ok" THEN "for_each" ELSE "empty"

\* A variant of ReadDirArm without the NotFound arm.
ReadDirArm_AbsentFatal(d) == IF d = "ok" THEN "for_each" ELSE "err"

\* get_sessions, the arms of `match fs::read_dir(..)`: Ok(files) is iterated,
\* Err(NotFound) becomes Ok(empty), every other Err is returned.
ReadDirArm(d) ==
    CASE d = "ok"     -> "for_each"
      [] d = "absent" -> "empty"
      [] OTHER        -> "err"

\* main, lines 31-35 with get_sessions, line 81: read_dir.  The entries and
\* their d_type are those present at the call.  An Err from get_sessions is
\* never NotFound, so main calls exit_zellij_not_found.
ReadDir(l) ==
    /\ At(l, "orig", "get_sessions")
    /\ acted' = [acted EXCEPT ![l] = TRUE]
    /\ \/ /\ ReadDirArm(dir) = "for_each"
          /\ \E q \in Orders({n \in RegNames : fs[n] # "none"}) :
                /\ files' = [files EXCEPT ![l] =
                      [i \in 1..Len(q) |->
                          [name |-> q[i], sock |-> fs[q[i]] # "file"]]]
                /\ listing' = [listing EXCEPT ![l] =
                      [i \in 1..Len(q) |->
                          [name |-> q[i], sock |-> fs[q[i]] # "file"]]]
          /\ Go(l, "orig", "for_each")
          /\ UNCHANGED printed
       \/ /\ ReadDirArm(dir) = "empty"
          /\ Go(l, "orig", "match_session")
          /\ UNCHANGED <<files, listing, printed>>
       \/ /\ ReadDirArm(dir) = "err"
          /\ printed' = [printed EXCEPT ![l] = TRUE]
          /\ Go(l, "orig", "exit-1")
          /\ UNCHANGED <<files, listing>>
    /\ UNCHANGED <<dir, fs, nested, arg, sessions, log, lastFeed, stdin,
                   prompted, joined, cmds, proc, sig>>

\* get_sessions, lines 84-91: one turn of files.for_each.  An entry that is
\* no socket is skipped by the `&&`; after the last entry Ok(sessions) goes
\* back to main.  The three unwraps of lines 85-87 are taken to succeed:
\* entries are read without an I/O error, names are UTF-8, and file_type is
\* answered from the d_type recorded at enumeration.
ForEach(l) ==
    /\ At(l, "orig", "for_each")
    /\ \/ /\ files[l] = <<>>
          /\ Go(l, "orig", "match_session")
          /\ UNCHANGED files
       \/ /\ files[l] # <<>>
          /\ ~Head(files[l]).sock
          /\ files' = [files EXCEPT ![l] = Tail(@)]
          /\ UNCHANGED pc
       \/ /\ files[l] # <<>>
          /\ Head(files[l]).sock
          /\ Go(l, "orig", "connect")
          /\ UNCHANGED files
    /\ UNCHANGED <<dir, fs, nested, arg, sessions, log, lastFeed, stdin,
                   prompted, joined, acted, printed, cmds, listing, proc, sig>>

\* assert_socket, line 100: LocalSocketStream::connect(path) and its match.
Connect(l) ==
    /\ At(l, "orig", "connect")
    /\ LET n   == Cur(l)
           out == ConnectOutcome(fs[n])
           arm == ConnectArm(out)
       IN  /\ log' = [log EXCEPT
                 ![l][n].out = out,
                 ![l][n].second = n \in StaleDone,
                 ![l][n].ret = IF arm = "false" THEN "false" ELSE @]
           /\ IF arm = "false"
              THEN /\ ProbeReturns(l, FALSE)
                   /\ Go(l, "orig", "for_each")
              ELSE /\ Go(l, "orig", arm)
                   /\ UNCHANGED <<files, sessions>>
    /\ UNCHANGED <<dir, fs, nested, arg, lastFeed, stdin, prompted, joined,
                   acted, printed, cmds, listing, proc, sig>>

\* assert_socket, lines 102-108: send ConnStatus (its result is ignored),
\* then one recv.
Recv(l) ==
    /\ At(l, "orig", "recv")
    /\ RecvReady(fs[Cur(l)])
    /\ \E resp \in Responses :
          /\ log' = [log EXCEPT
                ![l][Cur(l)].resp = resp,
                ![l][Cur(l)].ret = IF RecvArm(resp) THEN "true" ELSE "false"]
          /\ ProbeReturns(l, RecvArm(resp))
    /\ Go(l, "orig", "for_each")
    /\ UNCHANGED <<dir, fs, nested, arg, lastFeed, stdin, prompted, joined,
                   acted, printed, cmds, listing, proc, sig>>

\* assert_socket, lines 110-113: remove_file on the path, whatever is there
\* by now.  It fails with NotFound when nothing is, and may fail for lack of
\* permission on the directory.
RemoveFile(l) ==
    /\ At(l, "orig", "remove_file")
    /\ LET n == Cur(l) IN
       \E result \in (IF fs[n] = "none" THEN {"gone"} ELSE {"removed", "failed"}) :
          /\ fs' = IF result = "removed" THEN [fs EXCEPT ![n] = "none"] ELSE fs
          /\ log' = [log EXCEPT
                ![l][n].rm = result,
                ![l][n].hitLive = (result = "removed" /\ fs[n] = "live"),
                ![l][n].ret = IF RemoveArm(result) = "false" THEN "false" ELSE @]
          /\ IF RemoveArm(result) = "false"
             THEN /\ ProbeReturns(l, FALSE)
                  /\ Go(l, "orig", "for_each")
             ELSE /\ Go(l, "orig", RemoveArm(result))
                  /\ UNCHANGED <<files, sessions>>
    /\ UNCHANGED <<dir, nested, arg, lastFeed, stdin, prompted, joined,
                   acted, printed, cmds, listing, proc, sig>>

(* ---------------------------------------------------------------------- *)
(* Selection and launch.                                                   *)
(* ---------------------------------------------------------------------- *)

\* main, lines 37-47.  Without a name interactive_select is entered (header
\* printed, editor and Ctrl-C handler set up); with one, try_joining is
\* matched and spawn() does nothing.
MatchSession(l) ==
    /\ At(l, "orig", "match_session")
    /\ IF arg[l] = None
       THEN /\ prompted' = [prompted EXCEPT ![l] = TRUE]
            /\ Go(l, "orig", "readline")
            /\ UNCHANGED joined
       ELSE /\ joined' = [joined EXCEPT ![l] = TryJoining(arg[l][1], sessions[l])]
            /\ Go(l, "orig", AfterJoin(TryJoining(arg[l][1], sessions[l])))
            /\ UNCHANGED prompted
    /\ UNCHANGED <<dir, fs, nested, arg, files, sessions, log, lastFeed, stdin,
                   acted, printed, cmds, listing, proc, sig>>

\* interactive_select, lines 155-170: one turn of the loop.  readline yields
\* a line or an Err (end of input, interrupt), which `?` returns.  A rejected
\* line continues the loop; any other line is the loop's value `stdin`, is
\* handed to spawn() (a no-op) and Ok(()) is returned.  main discards the
\* Result either way (line 39).
Readline(l) ==
    /\ At(l, "orig", "readline")
    /\ \/ /\ lastFeed' = [lastFeed EXCEPT ![l] = None]
          /\ Go(l, "orig", "launch")
          /\ UNCHANGED stdin
       \/ \E feed \in Strings :
             /\ lastFeed' = [lastFeed EXCEPT ![l] = Some(feed)]
             /\ IF IsRejected(feed)
                THEN UNCHANGED <<pc, stdin>>
                ELSE /\ stdin' = [stdin EXCEPT ![l] = Some(feed)]
                     /\ Go(l, "orig", "launch")
    /\ UNCHANGED <<dir, fs, nested, arg, files, sessions, log, prompted,
                   joined, acted, printed, cmds, listing, proc, sig>>

\* Ctrl-C while readline waits (lines 150-159).  On a terminal the editor
\* has it in raw mode: the key is read as input and readline returns
\* Err(ReadlineError::Interrupted), which `?` returns from the selector.  A
\* SIGINT that does reach the process runs the handler of line 150, which
\* prints its hint, and readline keeps waiting.
CtrlC(l) ==
    /\ At(l, "orig", "readline")
    /\ \/ /\ sig' = [sig EXCEPT ![l] = "err"]
          /\ lastFeed' = [lastFeed EXCEPT ![l] = None]
          /\ Go(l, "orig", "launch")
       \/ /\ sig' = [sig EXCEPT ![l] = "hint"]
          /\ UNCHANGED <<pc, lastFeed>>
    /\ UNCHANGED <<dir, fs, nested, arg, files, sessions, log, stdin, prompted,
                   joined, acted, printed, cmds, listing, proc>>

\* main, line 48, `connect(session.unwrap())`, up to the first fork of
\* fork::daemon (line 127).  unwrap panics on None.  When fork fails daemon
\* returns Err, connect returns Err(BrokenPipe), main drops it and returns.
Launch(l) ==
    /\ At(l, "orig", "launch")
    /\ IF arg[l] = None
       THEN /\ Go(l, "orig", "panic")
            /\ UNCHANGED proc
       ELSE \/ /\ pc' = [pc EXCEPT ![l]["orig"] = "daemon_parent",
                                   ![l]["mid"] = "setsid"]
               /\ proc' = [proc EXCEPT ![l]["mid"] = proc[l]["orig"]]
            \/ /\ proc' = [proc EXCEPT ![l]["orig"].ret = "Err"]
               /\ Go(l, "orig", AfterConnect("Err"))
    /\ UNCHANGED <<dir, fs, nested, arg, files, sessions, log, lastFeed, stdin,
                   prompted, joined, acted, printed, cmds, listing, sig>>

\* fork::daemon, the parent of the first fork: exit(0).
ParentExit(l) ==
    /\ At(l, "orig", "daemon_parent")
    /\ Go(l, "orig", DaemonParentArm)
    /\ UNCHANGED <<dir, fs, nested, arg, files, sessions, log, lastFeed, stdin,
                   prompted, joined, acted, printed, cmds, listing, proc, sig>>

\* fork::daemon in the first child: setsid and, nochdir being false, chdir.
\* noclose is true, so the standard streams are not touched.  A failure makes
\* daemon return Err, so connect returns Err and main returns.
Setsid(l) ==
    /\ At(l, "mid", "setsid")
    /\ \/ /\ proc' = [proc EXCEPT
                ![l]["mid"].detached = TRUE,
                ![l]["mid"].stdio = DaemonStdio(@)]
          /\ Go(l, "mid", "fork2")
       \/ /\ proc' = [proc EXCEPT ![l]["mid"].ret = "Err"]
          /\ Go(l, "mid", AfterConnect("Err"))
    /\ UNCHANGED <<dir, fs, nested, arg, files, sessions, log, lastFeed, stdin,
                   prompted, joined, acted, printed, cmds, listing, sig>>

\* fork::daemon in the first child: the second fork, whose result daemon
\* returns as it is.
Fork2(l) ==
    /\ At(l, "mid", "fork2")
    /\ \/ /\ pc' = [pc EXCEPT ![l]["mid"] = "daemon_ret",
                              ![l]["grand"] = "spawn"]
          /\ proc' = [proc EXCEPT ![l]["grand"] = proc[l]["mid"]]
       \/ /\ proc' = [proc EXCEPT ![l]["mid"].ret = "Err"]
          /\ Go(l, "mid", AfterConnect("Err"))
    /\ UNCHANGED <<dir, fs, nested, arg, files, sessions, log, lastFeed, stdin,
                   prompted, joined, acted, printed, cmds, listing, sig>>

\* connect, lines 127-138, in process p, to which daemon returned Ok(ret):
\* on Fork::Child the client is spawned (it starts, or spawn fails for want
\* of a zellij on PATH) and connect returns spawn's Result; otherwise connect
\* returns Err(BrokenPipe).
ConnectBody(l, p, ret) ==
    IF SpawnsOn(ret)
    THEN \E ok \in BOOLEAN :
            /\ cmds' = [cmds EXCEPT ![l] =
                  Append(@, [by |-> p, argv |-> ClientArgv(arg[l][1]),
                             ok |-> ok,
                             stdio |-> SpawnStdio(proc[l][p].stdio),
                             detached |-> proc[l][p].detached])]
            /\ proc' = [proc EXCEPT ![l][p].ret = IF ok THEN "Ok" ELSE "Err"]
    ELSE /\ proc' = [proc EXCEPT ![l][p].ret = "Err"]
         /\ UNCHANGED cmds

\* connect in the first child, the parent of the second fork, and main's
\* return after it.
MidReturn(l) ==
    /\ At(l, "mid", "daemon_ret")
    /\ ConnectBody(l, "mid", "Parent")
    /\ Go(l, "mid", AfterConnect(proc'[l]["mid"].ret))
    /\ UNCHANGED <<dir, fs, nested, arg, files, sessions, log, lastFeed, stdin,
                   prompted, joined, acted, printed, listing, sig>>

\* connect in the second child.
SpawnClient(l) ==
    /\ At(l, "grand", "spawn")
    /\ ConnectBody(l, "grand", "Child")
    /\ Go(l, "grand", "main_ret")
    /\ UNCHANGED <<dir, fs, nested, arg, files, sessions, log, lastFeed, stdin,
                   prompted, joined, acted, printed, listing, sig>>

\* main returns in the second child: the process ends with status 0.
GrandExit(l) ==
    /\ At(l, "grand", "main_ret")
    /\ Go(l, "grand", AfterConnect(proc[l]["grand"].ret))
    /\ UNCHANGED <<dir, fs, nested, arg, files, sessions, log, lastFeed, stdin,
                   prompted, joined, acted, printed, cmds, listing, proc, sig>>

(* ---------------------------------------------------------------------- *)
(* The service, which owns the registry.                                   *)
(* ---------------------------------------------------------------------- *)

\* A server binds its socket at a free path.
SvcBind(n) ==
    /\ dir = "ok"
    /\ fs[n] = "none"
    /\ fs' = [fs EXCEPT ![n] = "live"]
    /\ UNCHANGED <<dir, nested, arg>>
    /\ UNCHANGED launcherVars

\* A server dies without cleaning up: its socket file stays.
SvcCrash(n) ==
    /\ fs[n] \in {"live", "mute"}
    /\ fs' = [fs EXCEPT ![n] = "stale"]
    /\ UNCHANGED <<dir, nested, arg>>
    /\ UNCHANGED launcherVars

\* A socket file is unlinked: by its server on exit, or a leftover by a
\* server about to bind the path.
SvcRemove(n) ==
    /\ fs[n] \in {"stale", "live", "mute"}
    /\ fs' = [fs EXCEPT ![n] = "none"]
    /\ UNCHANGED <<dir, nested, arg>>
    /\ UNCHANGED launcherVars

\* Session resolution: main up to the value of running_sessions.
Resolve(l) ==
    \/ Guard(l)
    \/ ReadDir(l)
    \/ ForEach(l)
    \/ Connect(l)
    \/ Recv(l)
    \/ RemoveFile(l)

\* A launcher that has still to read the registry or is going through it.
Resolving(l) ==
    pc[l]["orig"] \in {"main", "get_sessions", "for_each", "connect", "recv",
                       "remove_file"}

\* The service is followed for as long as a launcher can see what it does:
\* after get_sessions the launcher never looks at the registry again.
Service ==
    /\ \E l \in Launchers : Resolving(l)
    /\ \E n \in RegNames :
          \/ SvcBind(n)
          \/ SvcCrash(n)
          \/ SvcRemove(n)

Next ==
    \/ \E l \in Launchers :
          \/ Resolve(l)
          \/ MatchSession(l)
          \/ Readline(l)
          \/ CtrlC(l)
          \/ Launch(l)
          \/ ParentExit(l)
          \/ Setsid(l)
          \/ Fork2(l)
          \/ MidReturn(l)
          \/ SpawnClient(l)
          \/ GrandExit(l)
    \/ Service

\* The resolutions of two launchers, interleaved, on a registry the service
\* leaves alone.
NextRace == \E l \in Launchers : Resolve(l)

Spec == Init /\ [][Next]_vars

\* What a launcher does without waiting for anyone: everything but reading
\* a line from the user.  A process that can run is scheduled; recv returns
\* only when RecvReady.
Runs(l) ==
    \/ Resolve(l)
    \/ MatchSession(l)
    \/ Launch(l)
    \/ ParentExit(l)
    \/ Setsid(l)
    \/ Fork2(l)
    \/ MidReturn(l)
    \/ SpawnClient(l)
    \/ GrandExit(l)

\* A launcher over a registry nobody else changes meanwhile.
NextLive == \E l \in Launchers : Runs(l) \/ Readline(l) \/ CtrlC(l)

SpecLive ==
    Init /\ [][NextLive]_vars /\ \A l \in Launchers : WF_vars(Runs(l))

SpecRace == InitRace /\ [][NextRace]_vars

(* ---------------------------------------------------------------------- *)
(* Properties.                                                             *)
(* ---------------------------------------------------------------------- *)

\* The verdict of a finished probe, read off what assert_socket did: it
\* returned true (Live), it called remove_file (Stale), or neither.
Verdict(l, n) ==
    IF log[l][n].ret = "true" THEN "Live"
    ELSE IF log[l][n].rm # "-" THEN "Stale"
    ELSE "Unreachable"

\* The verdict the connection outcome calls for.
Expected(l, n) ==
    IF log[l][n].out = "ok" /\ log[l][n].resp = "Connected" THEN "Live"
    ELSE IF log[l][n].out = "refused" THEN "Stale"
    ELSE "Unreachable"

\* A step of a launcher (the service leaves every launcher variable alone).
LauncherStep == launcherVars' # launcherVars

\* A name fit for launching: not empty, no whitespace.
ValidName(s) == s # <<>> /\ \A i \in 1..Len(s) : s[i] # " "

\* C1: every finished probe has the one verdict its connection outcome calls
\* for: Live iff connected and acknowledged, Stale iff refused, Unreachable
\* otherwise.
C1_VerdictPartition ==
    \A l \in Launchers : \A n \in RegNames :
        log[l][n].ret # "-" =>
            /\ log[l][n].out # "-"
            /\ Verdict(l, n) = Expected(l, n)
            /\ (log[l][n].ret = "true") = (\E i \in 1..Len(sessions[l]) : sessions[l][i] = n)

\* One resolution that met a live and a refusing socket.
C1_Witness ==
    \E n, m \in RegNames :
        /\ log["L1"][n].ret # "-" /\ Verdict("L1", n) = "Live"
        /\ log["L1"][m].ret # "-" /\ Verdict("L1", m) = "Stale"

\* C2: a launcher step changes the registry only by removing the file at a
\* path whose connect, by that launcher, was refused; it creates nothing and
\* removes nothing at a path it connected to or failed on otherwise.
C2_OnlyRefusedRemoved ==
    [][LauncherStep =>
        \A n \in RegNames :
            fs'[n] # fs[n] =>
                /\ fs'[n] = "none"
                /\ \E l \in Launchers :
                      /\ At(l, "orig", "remove_file")
                      /\ pc'[l] # pc[l]
                      /\ Cur(l) = n
                      /\ log[l][n].out = "refused"]_vars

\* A launcher has removed a file, and left alone one it could not connect to.
C2_Witness ==
    \E n, m \in RegNames :
        /\ log["L1"][n].rm = "removed"
        /\ log["L1"][m].out = "denied" /\ fs[m] = "locked"

\* C3: no launcher removes the socket of a session that is live when it is
\* removed.
C3_NeverRemovesLive ==
    \A l \in Launchers : \A n \in RegNames : ~log[l][n].hitLive

\* C4: a probe of a path that a finished probe already found stale (second
\* = TRUE) raises no error, returns false, and changes nothing when the file
\* is gone or cannot be deleted.
C4_SecondProbeQuiet ==
    [][\A l \in Launchers :
          (/\ pc[l]["orig"] \in {"connect", "remove_file"}
           /\ pc'[l] # pc[l]
           /\ Cur(l) \in StaleDone
           /\ log'[l][Cur(l)].second)
          => /\ pc'[l]["orig"] \in {"remove_file", "for_each"}
             /\ pc'[l]["orig"] = "for_each" =>
                   /\ log'[l][Cur(l)].ret = "false"
                   /\ sessions'[l] = sessions[l]
             /\ fs[Cur(l)] = "none" => fs' = fs
             /\ log'[l][Cur(l)].rm \in {"gone", "failed"} => fs' = fs
             /\ fs' # fs => /\ fs[Cur(l)] = "stale"
                            /\ fs' = [fs EXCEPT ![Cur(l)] = "none"]]_vars

\* Both launchers probed the same path one after the other; the second probe
\* found the file gone.
C4_Witness ==
    \E n \in RegNames :
        /\ log["L1"][n].rm = "removed"
        /\ log["L2"][n].second
        /\ log["L2"][n].out = "notfound"
        /\ log["L2"][n].ret = "false"
        /\ n \in StaleDone

\* The entries that were stale when the launchers started, where only
\* launchers act: those still stale and those a launcher has removed.
StaleAllAlong ==
    {n \in RegNames :
        fs[n] = "stale" \/ \E l \in Launchers : log[l][n].rm = "removed"}

Resolved(l) == At(l, "orig", "match_session")

C6_NestedRefused ==
    \A l \in Launchers :
        nested[l] =>
            /\ pc[l]["orig"] \in {"main", "exit-1"}
            /\ ~acted[l]
            /\ ~prompted[l]
            /\ cmds[l] = <<>>

\* C7: every name handed to the client is non-empty and free of whitespace.
C7_LaunchedNameValid ==
    \A l \in Launchers :
        \A i \in 1..Len(cmds[l]) : ValidName(cmds[l][i].argv[3])

\* C8: a line that is empty or holds whitespace keeps the selector in its
\* loop; it is never the chosen name, and nothing is launched while no line
\* has been accepted.
C8_RejectedNeverChosen ==
    \A l \in Launchers :
        /\ (lastFeed[l] # None /\ ~ValidName(lastFeed[l][1])) =>
              /\ At(l, "orig", "readline")
              /\ stdin[l] = None
        /\ stdin[l] # None => ValidName(stdin[l][1]) /\ stdin[l] = lastFeed[l]
        /\ (prompted[l] /\ stdin[l] = None) =>
              /\ cmds[l] = <<>>
              /\ pc[l]["mid"] = "unborn"

\* The selector has turned down a line with whitespace and prompts again.
C8_Witness ==
    /\ lastFeed["L1"] = Some(<<"a", " ">>)
    /\ At("L1", "orig", "readline")

\* C9: once the selector has accepted a line, the launcher goes on to the
\* orchestrator with it: it does not crash, and every client it starts is
\* given that line.
C9_ChosenIsLaunched ==
    \A l \in Launchers :
        (arg[l] = None /\ stdin[l] # None) =>
            /\ pc[l]["orig"] \in {"launch", "daemon_parent", "exit0"}
            /\ \A i \in 1..Len(cmds[l]) :
                  cmds[l][i].argv = <<"zellij", "-a", stdin[l][1]>>

\* C10: with a name on the command line there is no prompt, the name not
\* being among the live sessions is no error, and the client is started
\* once by the daemonized process as `zellij -a <name>`.
C10_NamedLaunch ==
    \A l \in Launchers :
        arg[l] # None =>
            /\ ~prompted[l] /\ lastFeed[l] = None /\ stdin[l] = None
            /\ pc[l]["orig"] # "panic"
            /\ joined[l] # "-" =>
                  pc[l]["orig"] \in {"launch", "daemon_parent", "exit0"}
            /\ \A i \in 1..Len(cmds[l]) :
                  cmds[l][i].argv = <<"zellij", "-a", arg[l][1]>>
            /\ pc[l]["grand"] \in {"main_ret", "exit0"} => Len(cmds[l]) = 1

\* A name that is running was given and the client was started with it.
C10_FoundCase ==
    /\ arg["L1"] = Some(<<"a">>)
    /\ joined["L1"] = "ok"
    /\ Len(cmds["L1"]) = 1
    /\ cmds["L1"][1].ok
    /\ cmds["L1"][1].argv = <<"zellij", "-a", <<"a">>>>

\* A name that is not running was given and the client was started with it.
C10_Witness ==
    /\ arg["L1"] = Some(<<"a">>)
    /\ joined["L1"] = "notfound"
    /\ Len(cmds["L1"]) = 1
    /\ cmds["L1"][1].ok
    /\ cmds["L1"][1].argv = <<"zellij", "-a", <<"a">>>>

\* A process that is no more, or never was.
Exited(l, p) == pc[l][p] \in {"unborn", "exit0", "exit-1", "panic"}

\* A client of launcher l was started.
Launched(l) == \E i \in 1..Len(cmds[l]) : cmds[l][i].ok

\* Who holds the terminal streams launcher l was started with: its running
\* processes whose streams are still those, and the client if it got them.
Holders(l) ==
    {p \in Procs : ~Exited(l, p) /\ proc[l][p].stdio = "tty"}
    \cup (IF \E i \in 1..Len(cmds[l]) :
                cmds[l][i].ok /\ cmds[l][i].stdio = "tty"
          THEN {"client"} ELSE {})

HandedOver(l) ==
    /\ \A p \in Procs : Exited(l, p)
    /\ Holders(l) = {"client"}

\* C11: once the client has been started, every process of the launcher
\* eventually exits, and from then on the client alone holds the terminal
\* streams.
C11_HandoffIsolation ==
    \A l \in Launchers : Launched(l) ~> [] HandedOver(l)

C11_Witness ==
    /\ Launched("L1")
    /\ \A p \in Procs : pc["L1"][p] = "exit0"
    /\ Holders("L1") = {"client"}

\* A launch cut short: fork failed in the process, or the first child could
\* not detach or fork again (the second child was never born).
HandoffBroke(l, p) ==
    /\ proc[l][p].ret = "Err"
    /\ p = "mid" => pc[l]["grand"] = "unborn"

\* C12: when a fork or the detach fails, no client is spawned, and the
\* process prints a message and ends with a non-zero status.
C12_BrokenHandoffFatal ==
    \A l \in Launchers : \A p \in {"orig", "mid"} :
        (HandoffBroke(l, p) /\ Exited(l, p)) =>
            /\ cmds[l] = <<>>
            /\ printed[l]
            /\ pc[l][p] = "exit-1"

\* get_sessions has returned to main, or ended the process.
Listed(l) ==
    pc[l]["orig"] \notin {"unborn", "main", "get_sessions", "for_each",
                          "connect", "recv", "remove_file"}

\* C13: when the registry directory cannot be read for a reason other than
\* its absence, the launcher prints a message and exits with a non-zero
\* status; it shows no prompt and starts no client.
C13_RegistryUnavailable ==
    \A l \in Launchers :
        (dir = "denied" /\ acted[l]) =>
            /\ pc[l]["orig"] = "exit-1"
            /\ printed[l]
            /\ ~prompted[l]
            /\ cmds[l] = <<>>
            /\ \A p \in {"mid", "grand"} : pc[l][p] = "unborn"

C13_Witness ==
    /\ dir = "denied"
    /\ acted["L1"]
    /\ pc["L1"]["orig"] = "exit-1"

\* C14: when the registry directory does not exist the session list is
\* empty, nothing is probed or deleted, the launcher does not abort, and
\* without a name on the command line it goes on to the prompt.
C14_AbsentIsEmpty ==
    \A l \in Launchers :
        (dir = "absent" /\ acted[l]) =>
            /\ sessions[l] = <<>>
            /\ \A n \in RegNames : log[l][n] = NoLog
            /\ pc[l]["orig"] # "exit-1"
            /\ ~printed[l]
            /\ (arg[l] = None /\ pc[l]["orig"] # "match_session")
                  => prompted[l]

C14_Witness ==
    /\ dir = "absent"
    /\ arg["L1"] = None
    /\ prompted["L1"]
    /\ At("L1", "orig", "readline")

\* The names of the entries of a listing that are sockets found Live.
RECURSIVE LiveNames(_, _)
LiveNames(l, q) ==
    IF q = <<>> THEN <<>>
    ELSE (IF Head(q).sock /\ Verdict(l, Head(q).name) = "Live"
          THEN <<Head(q).name>> ELSE <<>>) \o LiveNames(l, Tail(q))

\* C15: the sessions returned are the names of the socket entries found
\* Live, each once, in enumeration order; entries that are no sockets have
\* been neither probed nor deleted.
C15_ExactlyLiveInOrder ==
    \A l \in Launchers :
        Listed(l) =>
            /\ sessions[l] = LiveNames(l, listing[l])
            /\ \A i \in 1..Len(listing[l]) :
                  ~listing[l][i].sock => log[l][listing[l][i].name] = NoLog

\* Two sockets found Live and a listing that starts with the second name.
C15_Witness ==
    /\ Listed("L1")
    /\ Len(sessions["L1"]) = 2
    /\ sessions["L1"][1] = <<"a", "a">>

C15_SkipWitness ==
    /\ Listed("L1")
    /\ \E i \in 1..Len(listing["L1"]) : ~listing["L1"][i].sock
    /\ sessions["L1"] # <<>>

\* C16: the client is spawned only by the second child, after the detach,
\* and the parent of either fork ends without spawning.
C16_Step(l) ==
    /\ cmds'[l] # cmds[l] =>
          /\ pc[l]["grand"] = "spawn"
          /\ proc[l]["grand"].detached
          /\ cmds'[l][Len(cmds'[l])].by = "grand"
          /\ cmds'[l][Len(cmds'[l])].detached
    /\ (pc[l]["orig"] = "daemon_parent" /\ pc'[l]["orig"] # "daemon_parent") =>
          pc'[l]["orig"] = "exit0" /\ cmds'[l] = cmds[l]
    /\ (pc[l]["mid"] = "daemon_ret" /\ pc'[l]["mid"] # "daemon_ret") =>
          pc'[l]["mid"] = "exit0" /\ cmds'[l] = cmds[l]

C16_SpawnOnlyDetachedChild == [][\A l \in Launchers : C16_Step(l)]_vars

C16_Witness ==
    /\ Len(cmds["L1"]) = 1
    /\ cmds["L1"][1].by = "grand"
    /\ pc["L1"]["orig"] = "exit0"
    /\ pc["L1"]["mid"] = "exit0"

\* C17: the detach leaves the standard streams as they were, and the client
\* is given the same streams: those of the terminal the launcher was
\* started from.
C17_StreamsPreserved ==
    \A l \in Launchers :
        /\ \A p \in Procs : proc[l][p].stdio = "tty"
        /\ \A i \in 1..Len(cmds[l]) : cmds[l][i].stdio = "tty"

C17_Witness ==
    /\ proc["L1"]["grand"].detached
    /\ Len(cmds["L1"]) = 1
    /\ cmds["L1"][1].ok
    /\ cmds["L1"][1].stdio = "tty"

\* C18: over all the processes of one invocation the client is spawned at
\* most once.
C18_AtMostOneSpawn == \A l \in Launchers : Len(cmds[l]) <= 1

\* Both processes left after the detach have gone through connect.
C18_Witness ==
    /\ Len(cmds["L1"]) = 1
    /\ proc["L1"]["mid"].ret = "Err"
    /\ proc["L1"]["grand"].ret # "-"
    /\ pc["L1"]["grand"] = "exit0"

\* C19: Ctrl-C at the prompt only prints the hint; the selector stays in
\* its read loop.
C19_InterruptOnlyHints ==
    [][\A l \in Launchers :
          sig'[l] # sig[l] =>
              /\ sig'[l] = "hint"
              /\ pc'[l]["orig"] = "readline"]_vars

\* Resolution is waiting in recv on a server that stays silent.
Blocked(l) == At(l, "orig", "recv") /\ fs[Cur(l)] = "mute"

\* The entries still to be probed are a tail of the listing.
InOrder(l) ==
    \E k \in 0..Len(listing[l]) :
        files[l] = SubSeq(listing[l], k + 1, Len(listing[l]))

\* A step that finishes a recv.
C20_Step(l) ==
    \A n \in RegNames :
        log'[l][n].resp # log[l][n].resp =>
            /\ log[l][n].resp = "-"
            /\ At(l, "orig", "recv")
            /\ n = Cur(l)
            /\ files'[l] = Tail(files[l])

\* C20: over a registry without a silent server resolution completes; the
\* probes go through the listing in order, one recv each; and a recv on a
\* server that stays silent never returns, so that there is no prompt and
\* no client.
C20_ResolutionCompletes ==
    /\ \A l \in Launchers :
          (At(l, "orig", "main") /\ \A n \in RegNames : fs[n] # "mute")
              ~> Listed(l)
    /\ \A l \in Launchers : [](Blocked(l) => [](Blocked(l) /\ ~Listed(l)))
    /\ [][\A l \in Launchers : C20_Step(l)]_vars
    /\ [](\A l \in Launchers : InOrder(l))

\* Resolution blocked on the second entry, the first one answered.
C20_Witness ==
    /\ Blocked("L1")
    /\ Len(listing["L1"]) = 2
    /\ Len(files["L1"]) = 1
    /\ log["L1"][listing["L1"][1].name].resp # "-"

====
